---------------------------- MODULE Spec2Model ----------------------------
(***************************************************************************)
(* Model of source/dshow-base.cpp of libdshowcapture: the device-filter    *)
(* resolver (GetDeviceFilter), the pin predicates (PinHasMajorType,        *)
(* PinIsDirection, PinIsCategory, PinNameIs, PinMatches), the pin walkers  *)
(* (GetFilterPin, GetPinByName, GetPinByMedium), the medium extractor      *)
(* (GetPinMedium) and the medium cross-reference resolver                  *)
(* (GetFilterByMedium).                                                    *)
(*                                                                         *)
(* COM objects are indices into the sequences that describe the platform   *)
(* (devices, filters, pins of a filter, monikers); 0 is the NULL pointer.  *)
(* A reference count is kept per object and counts the references that the *)
(* code of this file has added and not yet released.                       *)
(***************************************************************************)
EXTENDS Integers, Sequences, FiniteSets, TLC

(***************************************************************************)
(* Bounds of the explored platform.                                        *)
(***************************************************************************)
MaxDevices == 3
MaxPins == 2
MaxCaps == 3
MaxMediaTypes == 2
MaxMediums == 3
MaxMonikers == 3

(***************************************************************************)
(* Values.                                                                 *)
(***************************************************************************)
NULL == "NULL"

DeviceNames == {"Cam1", "Cam2"}
DevicePaths == {"A", "B"}
MajorTypes == {"MEDIATYPE_Video", "MEDIATYPE_Audio"}
Categories == {"PIN_CATEGORY_CAPTURE", "PIN_CATEGORY_PREVIEW"}
Directions == {"PINDIR_INPUT", "PINDIR_OUTPUT"}
PinNames == {"Capture", "Preview"}

GUID_NULL == "GUID_NULL"
KSMEDIUMSETID_Standard == "KSMEDIUMSETID_Standard"
MediumClasses == {GUID_NULL, KSMEDIUMSETID_Standard, "MediumSetX"}

\* HRESULT codes the platform queries return
S_OK == "S_OK"
E_FAIL == "E_FAIL"
E_POINTER == "E_POINTER"
E_NOINTERFACE == "E_NOINTERFACE"
E_PROP_ID_UNSUPPORTED == "E_PROP_ID_UNSUPPORTED"

FAILED(hr) == hr \notin {"S_OK", "S_FALSE"}
SUCCEEDED(hr) == ~FAILED(hr)

SeqsUpTo(S, n) == UNION {[1..k -> S] : k \in 0..n}

\* REGPINMEDIUM { clsMedium, dw1, dw2 }
Medium(c, a, b) == [clsMedium |-> c, dw1 |-> a, dw2 |-> b]
ZeroMedium == Medium(GUID_NULL, 0, 0)

(***************************************************************************)
(* A pin, as the queries of this file see it:                              *)
(*   config     IAMStreamConfig: QueryInterface result, the result of      *)
(*              GetNumberOfCapabilities, and one entry per capability      *)
(*              index (its major type, or E_FAIL when GetStreamCaps fails) *)
(*   media      EnumMediaTypes result and the media types it yields        *)
(*   dir        QueryDirection result and direction                        *)
(*   propSet    IKsPropertySet: present or not, and the result of          *)
(*              Get(AMPROPERTY_PIN_CATEGORY)                               *)
(*   info       QueryPinInfo result and achName                            *)
(*   ks         IKsPin: present or not, and the result of KsQueryMediums   *)
(***************************************************************************)
Pin(config, media, dir, propSet, info, ks) ==
    [config |-> config, media |-> media, dir |-> dir, propSet |-> propSet,
     info |-> info, ks |-> ks]

Config(qi, count, caps) == [qi |-> qi, count |-> count, caps |-> caps]
Media(hr, types) == [hr |-> hr, types |-> types]
Dir(hr, d) == [hr |-> hr, dir |-> d]
PropSet(present, hr, cat) == [present |-> present, hr |-> hr, category |-> cat]
Info(hr, name) == [hr |-> hr, achName |-> name]
Ks(present, hr, items) == [present |-> present, hr |-> hr, items |-> items]

NoConfig == Config(E_NOINTERFACE, E_FAIL, <<>>)
NoMedia == Media(S_OK, <<>>)
NoPropSet == PropSet(FALSE, E_FAIL, GUID_NULL)
NoKs == Ks(FALSE, E_FAIL, <<>>)

(***************************************************************************)
(* GetDeviceFilter                                                         *)
(***************************************************************************)

\* wcscmp(a, b) != 0
WcsDiffer(a, b) == a # b

\* The visitor: info is [filter, name, path]; returns the new info.filter
\* and the continue flag.
GetDeviceCallbackNoPathStop(info, filter, name, path) ==
    IF info.name # NULL /\ WcsDiffer(name, info.name)
    THEN [filter |-> info.filter, continue |-> TRUE]
    ELSE [filter |-> filter,
          continue |-> (path # NULL /\ info.path # NULL
                           /\ WcsDiffer(path, info.path))]

GetDeviceCallbackNeverStop(info, filter, name, path) ==
    IF info.name # NULL /\ WcsDiffer(name, info.name)
    THEN [filter |-> info.filter, continue |-> TRUE]
    ELSE [filter |-> filter, continue |-> TRUE]

GetDeviceCallbackKeepFirst(info, filter, name, path) ==
    IF info.name # NULL /\ WcsDiffer(name, info.name)
    THEN [filter |-> info.filter, continue |-> TRUE]
    ELSE [filter |-> IF info.filter = 0 THEN filter ELSE info.filter,
          continue |-> (path = NULL \/ info.path = NULL
                           \/ WcsDiffer(path, info.path))]

GetDeviceCallback(info, filter, name, path) ==
    IF info.name # NULL /\ WcsDiffer(name, info.name)
    THEN [filter |-> info.filter, continue |-> TRUE]
    ELSE [filter |-> filter,
          continue |-> (path = NULL \/ info.path = NULL
                           \/ WcsDiffer(path, info.path))]


(***************************************************************************)
(* State.                                                                  *)
(*   op, pc       the public operation running and its position            *)
(*   req          the arguments of the call                                *)
(*   devices      what EnumDevices visits: [name, path] per candidate      *)
(*   devEnum      whether EnumDevices reports success                      *)
(*   sysEnum      results of CoCreateInstance and CreateClassEnumerator    *)
(*   binds        per moniker, the result of BindToObject                  *)
(*   filters      the filter objects: [enumPins, pins]; the filter of      *)
(*                moniker i is filters[i]                                  *)
(*   fcur         the filter argument of the running pin walker (0 = NULL) *)
(*   di, pi, mi   positions of the device, pin and moniker enumerators     *)
(*   infoFilter   DeviceFilterCallbackInfo::filter                         *)
(*   curPin, curFilter, moniker   the CComPtr locals of the loops          *)
(*   outPin, outFilter            the handles written to the out parameter *)
(*   outMedium    the medium written by GetPinMedium                       *)
(*   ret          the boolean result, valid when pc = "done"               *)
(*   devRefs, pinRefs, filtRefs, monRefs   reference counts                *)
(*   heldAtAdvance   history: the candidate handles a loop held at the     *)
(*                moments it advanced to its next candidate                *)
(***************************************************************************)
VARIABLES op, pc, req, devices, devEnum, sysEnum, binds, filters, fcur,
          di, pi, mi, infoFilter, curPin, curFilter, moniker,
          outPin, outFilter, outMedium, ret,
          devRefs, pinRefs, filtRefs, monRefs, heldAtAdvance

vars == <<op, pc, req, devices, devEnum, sysEnum, binds, filters, fcur,
          di, pi, mi, infoFilter, curPin, curFilter, moniker,
          outPin, outFilter, outMedium, ret,
          devRefs, pinRefs, filtRefs, monRefs, heldAtAdvance>>

platform == <<op, req, devices, devEnum, sysEnum, binds, filters>>

ThePin(pin) == filters[fcur].pins[pin]

(***************************************************************************)
(* Predicate layer                                                         *)
(***************************************************************************)

\* one capability entry: the result of GetStreamCaps(i) and its major type
Cap(hr, t) == [hr |-> hr, majortype |-> t]

PinConfigHasMajorType(pin, type) ==
    LET config == ThePin(pin).config IN
    IF FAILED(config.qi) THEN FALSE
    ELSE IF FAILED(config.count) THEN FALSE
    ELSE \E i \in 1..Len(config.caps) :
            SUCCEEDED(config.caps[i].hr) /\ config.caps[i].majortype = type

PinHasMajorTypeMediaFirst(pin, type) ==
    LET media == ThePin(pin).media IN
    IF SUCCEEDED(media.hr) /\ Len(media.types) > 0
    THEN media.types[1] = type
    ELSE PinConfigHasMajorType(pin, type)

PinHasMajorType(pin, type) ==
    LET media == ThePin(pin).media IN
    IF PinConfigHasMajorType(pin, type) THEN TRUE
    ELSE IF FAILED(media.hr) THEN FALSE
    ELSE IF Len(media.types) = 0 THEN FALSE
    ELSE media.types[1] = type

PinIsDirection(pin, dir) ==
    IF pin = 0 THEN FALSE
    ELSE SUCCEEDED(ThePin(pin).dir.hr) /\ ThePin(pin).dir.dir = dir

\* returns the HRESULT and the category written through the reference
GetPinCategory(pin) ==
    IF pin = 0 THEN [hr |-> E_POINTER, category |-> GUID_NULL]
    ELSE IF ~ThePin(pin).propSet.present
    THEN [hr |-> E_NOINTERFACE, category |-> GUID_NULL]
    ELSE [hr |-> ThePin(pin).propSet.hr,
          category |-> ThePin(pin).propSet.category]

PinIsCategoryAnyFailure(pin, category) ==
    IF pin = 0 THEN FALSE
    ELSE LET r == GetPinCategory(pin) IN
         IF FAILED(r.hr) THEN TRUE
         ELSE category = r.category

PinIsCategory(pin, category) ==
    IF pin = 0 THEN FALSE
    ELSE LET r == GetPinCategory(pin) IN
         IF FAILED(r.hr) THEN r.hr = E_NOINTERFACE
         ELSE category = r.category

PinNameIs(pin, name) ==
    IF pin = 0 THEN FALSE
    ELSE IF name = NULL THEN TRUE
    ELSE IF FAILED(ThePin(pin).info.hr) THEN FALSE
    ELSE ~WcsDiffer(name, ThePin(pin).info.achName)

PinMatchesIgnoreDirection(pin, type, category, dir) ==
    PinHasMajorType(pin, type) /\ PinIsCategory(pin, category)

PinMatches(pin, type, category, dir) ==
    IF ~PinHasMajorType(pin, type) THEN FALSE
    ELSE IF ~PinIsDirection(pin, dir) THEN FALSE
    ELSE IF ~PinIsCategory(pin, category) THEN FALSE
    ELSE TRUE

(***************************************************************************)
(* Medium extractor                                                        *)
(***************************************************************************)
IsEqualGUID(a, b) == a = b

RECURSIVE ScanMediums(_, _)
ScanMediums(items, i) ==
    IF i > Len(items) THEN [ok |-> FALSE, medium |-> ZeroMedium]
    ELSE IF ~IsEqualGUID(items[i].clsMedium, GUID_NULL)
            /\ ~IsEqualGUID(items[i].clsMedium, KSMEDIUMSETID_Standard)
    THEN [ok |-> TRUE, medium |-> items[i]]
    ELSE ScanMediums(items, i + 1)

\* `medium` is the caller's variable passed by reference; the result carries
\* the boolean and the value the variable has afterwards.
GetPinMediumFirstEntry(pin, medium) ==
    IF pin = 0 \/ ~ThePin(pin).ks.present THEN [ok |-> FALSE, medium |-> medium]
    ELSE IF FAILED(ThePin(pin).ks.hr) THEN [ok |-> FALSE, medium |-> medium]
    ELSE IF Len(ThePin(pin).ks.items) > 0
    THEN [ok |-> TRUE, medium |-> ThePin(pin).ks.items[1]]
    ELSE [ok |-> FALSE, medium |-> ZeroMedium]

GetPinMedium(pin, medium) ==
    IF pin = 0 \/ ~ThePin(pin).ks.present THEN [ok |-> FALSE, medium |-> medium]
    ELSE IF FAILED(ThePin(pin).ks.hr) THEN [ok |-> FALSE, medium |-> medium]
    ELSE ScanMediums(ThePin(pin).ks.items, 1)

(***************************************************************************)
(* Reference counting (CComPtr)                                            *)
(***************************************************************************)
AddRef(refs, i) == [refs EXCEPT ![i] = @ + 1]
Release(refs, i) == IF i = 0 THEN refs ELSE [refs EXCEPT ![i] = @ - 1]

\* CComPtr::operator=(T*): AddRef the new pointer, Release the old one
ComPtrAssignLeak(refs, old, new) ==
    IF old = new THEN refs ELSE AddRef(refs, new)

ComPtrAssign(refs, old, new) ==
    IF old = new THEN refs ELSE Release(AddRef(refs, new), old)

AddRefPin(refs, f, i) == [refs EXCEPT ![f] = AddRef(@, i)]
ReleasePin(refs, f, i) == [refs EXCEPT ![f] = Release(@, i)]

Held(kind, h) == IF h = 0 THEN {} ELSE {<<kind, h>>}

(***************************************************************************)
(* Initial states: one call of one operation on one platform.              *)
(***************************************************************************)
DefaultReq ==
    [name |-> NULL, path |-> NULL, type |-> "MEDIATYPE_Video",
     category |-> "PIN_CATEGORY_CAPTURE", dir |-> "PINDIR_OUTPUT",
     pinName |-> NULL, medium |-> ZeroMedium, pin |-> 0]

Filter(enumPins, pins) == [enumPins |-> enumPins, pins |-> pins]

DefaultPin ==
    Pin(NoConfig, NoMedia, Dir(S_OK, "PINDIR_OUTPUT"), NoPropSet,
        Info(S_OK, "Capture"), NoKs)

\* memory the caller has not initialised
StackGarbage == {ZeroMedium, Medium("MediumSetX", 7, 7)}

InitLocals ==
    /\ di = 0 /\ pi = 0 /\ mi = 0
    /\ infoFilter = 0 /\ curPin = 0 /\ curFilter = 0 /\ moniker = 0
    /\ outPin = 0 /\ outFilter = 0
    /\ ret = FALSE
    /\ devRefs = [i \in 1..Len(devices) |-> 0]
    /\ filtRefs = [i \in 1..Len(filters) |-> 0]
    /\ monRefs = [i \in 1..Len(binds) |-> 0]
    /\ pinRefs = [f \in 1..Len(filters) |->
                    [i \in 1..Len(filters[f].pins) |-> 0]]
    /\ heldAtAdvance = {}

NoDevices == devices = <<>> /\ devEnum = TRUE
NoMonikers == binds = <<>> /\ sysEnum = [coCreate |-> S_OK, classEnum |-> S_OK]

RequestedNames == DeviceNames \cup {NULL}
RequestedPaths == DevicePaths \cup {NULL}
Devices == [name : DeviceNames, path : DevicePaths \cup {NULL}]

InitDevice ==
    /\ op = "GetDeviceFilter" /\ pc = "start"
    /\ \E n \in RequestedNames, p \in RequestedPaths :
          req = [DefaultReq EXCEPT !.name = n, !.path = p]
    /\ devEnum \in BOOLEAN
    /\ devices \in SeqsUpTo(Devices, MaxDevices)
    /\ ~devEnum => devices = <<>>
    /\ NoMonikers /\ filters = <<>> /\ fcur = 0
    /\ outMedium = ZeroMedium
    /\ InitLocals

\* the pin under test of a predicate call
OnePin(pin) == filters = <<Filter(TRUE, <<pin>>)>> /\ fcur = 1

CapEntries == {Cap(S_OK, t) : t \in MajorTypes} \cup {Cap(E_FAIL, GUID_NULL)}
Configs ==
    {NoConfig, Config(S_OK, E_FAIL, <<>>)}
        \cup {Config(S_OK, S_OK, c) : c \in SeqsUpTo(CapEntries, MaxCaps)}
Medias ==
    {Media(E_FAIL, <<>>)}
        \cup {Media(S_OK, t) : t \in SeqsUpTo(MajorTypes, MaxMediaTypes)}
PropSets ==
    {NoPropSet}
        \cup {PropSet(TRUE, S_OK, c) : c \in Categories}
        \cup {PropSet(TRUE, hr, GUID_NULL) :
                hr \in {E_NOINTERFACE, E_PROP_ID_UNSUPPORTED, E_FAIL}}
Mediums == {Medium(c, n, 0) : c \in MediumClasses, n \in {0, 1}}
KsPins ==
    {NoKs, Ks(TRUE, E_FAIL, <<>>)}
        \cup {Ks(TRUE, S_OK, m) : m \in SeqsUpTo(Mediums, MaxMediums)}

InitPredicate ==
    /\ pc = "start"
    /\ NoDevices /\ NoMonikers
    /\ \/ /\ op = "PinHasMajorType"
          /\ \E c \in Configs, m \in Medias :
                OnePin([DefaultPin EXCEPT !.config = c, !.media = m])
          /\ \E t \in MajorTypes :
                req = [DefaultReq EXCEPT !.type = t, !.pin = 1]
          /\ outMedium = ZeroMedium
       \/ /\ op = "PinIsCategory"
          /\ \E ps \in PropSets : OnePin([DefaultPin EXCEPT !.propSet = ps])
          /\ \E c \in Categories, h \in {0, 1} :
                req = [DefaultReq EXCEPT !.category = c, !.pin = h]
          /\ outMedium = ZeroMedium
       \/ /\ op = "GetPinMedium"
          /\ \E k \in KsPins : OnePin([DefaultPin EXCEPT !.ks = k])
          /\ \E h \in {0, 1} : req = [DefaultReq EXCEPT !.pin = h]
          /\ outMedium \in StackGarbage
    /\ InitLocals

\* the pins the walkers are run on
TypePins ==
    {[DefaultPin EXCEPT !.config = t[1], !.media = t[2], !.dir = Dir(S_OK, d),
                        !.propSet = ps] :
        t \in {<<NoConfig, Media(S_OK, <<"MEDIATYPE_Video">>)>>,
               <<Config(S_OK, S_OK, <<Cap(S_OK, "MEDIATYPE_Audio")>>), NoMedia>>},
        d \in Directions,
        ps \in {NoPropSet, PropSet(TRUE, E_PROP_ID_UNSUPPORTED, GUID_NULL)}
                 \cup {PropSet(TRUE, S_OK, c) : c \in Categories}}
NamePins ==
    {[DefaultPin EXCEPT !.dir = d, !.info = i] :
        d \in {Dir(S_OK, x) : x \in Directions} \cup {Dir(E_FAIL, "PINDIR_INPUT")},
        i \in {Info(S_OK, n) : n \in PinNames} \cup {Info(E_FAIL, "")}}
MediumPins ==
    {[DefaultPin EXCEPT !.ks = k] :
        k \in {NoKs, Ks(TRUE, E_FAIL, <<>>)}
                \cup {Ks(TRUE, S_OK, m) :
                        m \in {<<>>, <<ZeroMedium>>,
                               <<Medium(KSMEDIUMSETID_Standard, 1, 0)>>,
                               <<Medium("MediumSetX", 0, 0)>>,
                               <<Medium("MediumSetX", 1, 0)>>,
                               <<Medium(KSMEDIUMSETID_Standard, 0, 0),
                                 Medium("MediumSetX", 0, 0)>>,
                               <<Medium("MediumSetX", 1, 0),
                                 Medium("MediumSetX", 0, 0)>>}}}
TargetMediums ==
    {ZeroMedium, Medium(KSMEDIUMSETID_Standard, 1, 0),
     Medium("MediumSetX", 0, 0), Medium("MediumSetX", 1, 0)}

\* the filter argument: NULL, a filter whose EnumPins fails, or a filter
\* with up to MaxPins pins
WalkedFilter(pins) ==
    \/ filters = <<>> /\ fcur = 0
    \/ filters = <<Filter(FALSE, <<>>)>> /\ fcur = 1
    \/ \E ps \in SeqsUpTo(pins, MaxPins) :
          filters = <<Filter(TRUE, ps)>> /\ fcur = 1

InitWalker ==
    /\ NoDevices /\ NoMonikers
    /\ outMedium = ZeroMedium
    /\ \/ /\ op = "GetFilterPin" /\ pc = "gfp_call"
          /\ WalkedFilter(TypePins)
          /\ \E t \in MajorTypes, c \in Categories, d \in Directions :
                req = [DefaultReq EXCEPT !.type = t, !.category = c, !.dir = d]
       \/ /\ op = "GetPinByName" /\ pc = "gpn_call"
          /\ WalkedFilter(NamePins)
          /\ \E d \in Directions, n \in PinNames \cup {NULL} :
                req = [DefaultReq EXCEPT !.dir = d, !.pinName = n]
       \/ /\ op = "GetPinByMedium" /\ pc = "gpm_call"
          /\ WalkedFilter(MediumPins)
          /\ \E m \in TargetMediums : req = [DefaultReq EXCEPT !.medium = m]
    /\ InitLocals

\* what a moniker binds to: nothing (BindToObject fails), a filter whose
\* EnumPins fails, or a filter with some pins
PinWith(items) == [DefaultPin EXCEPT !.ks = Ks(TRUE, S_OK, items)]
BoundFilters ==
    {Filter(FALSE, <<>>), Filter(TRUE, <<>>),
     Filter(TRUE, <<PinWith(<<Medium("MediumSetX", 0, 0)>>)>>),
     Filter(TRUE, <<PinWith(<<Medium("MediumSetX", 1, 0)>>)>>),
     Filter(TRUE, <<PinWith(<<Medium(KSMEDIUMSETID_Standard, 0, 0)>>),
                    PinWith(<<Medium("MediumSetX", 0, 0)>>)>>),
     Filter(TRUE, <<PinWith(<<ZeroMedium, Medium("MediumSetX", 1, 0)>>),
                    PinWith(<<Medium("MediumSetX", 0, 0)>>)>>)}
Monikers ==
    {[bind |-> S_OK, filter |-> f] : f \in BoundFilters}
        \cup {[bind |-> E_FAIL, filter |-> Filter(FALSE, <<>>)]}

InitMedium ==
    /\ op = "GetFilterByMedium" /\ pc = "start"
    /\ devices = <<>> /\ devEnum = TRUE
    /\ \E m \in {Medium("MediumSetX", 0, 0), ZeroMedium} :
          req = [DefaultReq EXCEPT !.medium = m]
    /\ sysEnum \in {[coCreate |-> S_OK, classEnum |-> S_OK],
                    [coCreate |-> S_OK, classEnum |-> E_FAIL],
                    [coCreate |-> E_FAIL, classEnum |-> E_FAIL]}
    /\ \E ms \in SeqsUpTo(Monikers, MaxMonikers) :
          /\ binds = [i \in 1..Len(ms) |-> ms[i].bind]
          /\ filters = [i \in 1..Len(ms) |-> ms[i].filter]
          /\ (FAILED(sysEnum.classEnum) => ms = <<>>)
    /\ fcur = 0
    /\ outMedium = ZeroMedium
    /\ InitLocals

(***************************************************************************)
(* GetDeviceFilter and the device enumerator                               *)
(***************************************************************************)
Return(r) == pc' = "done" /\ ret' = r

\* info.name = name; info.path = path; EnumDevices(...) failing returns
\* false (info.filter is still NULL when info is destroyed)
GetDeviceFilter_Call ==
    /\ op = "GetDeviceFilter" /\ pc = "start"
    /\ IF ~devEnum THEN Return(FALSE) ELSE pc' = "enum" /\ ret' = ret
    /\ UNCHANGED <<platform, fcur, di, pi, mi, infoFilter, curPin, curFilter,
                   moniker, outPin, outFilter, outMedium, devRefs, pinRefs,
                   filtRefs, monRefs, heldAtAdvance>>

\* EnumDevices: the next registered device is instantiated and handed to
\* the visitor; after the last one the enumeration ends
EnumDevices_Next ==
    /\ op = "GetDeviceFilter" /\ pc = "enum"
    /\ IF di < Len(devices)
       THEN /\ di' = di + 1
            /\ pc' = "callback"
            /\ heldAtAdvance' = heldAtAdvance \cup Held("device", infoFilter)
       ELSE /\ pc' = "enumerated"
            /\ UNCHANGED <<di, heldAtAdvance>>
    /\ UNCHANGED <<platform, fcur, pi, mi, infoFilter, curPin, curFilter,
                   moniker, outPin, outFilter, outMedium, ret, devRefs,
                   pinRefs, filtRefs, monRefs>>

\* the visitor runs on device di; EnumDevices stops when it returns false
GetDeviceCallback_Visit ==
    /\ op = "GetDeviceFilter" /\ pc = "callback"
    /\ LET info == [filter |-> infoFilter, name |-> req.name,
                    path |-> req.path]
           r == GetDeviceCallback(info, di, devices[di].name,
                                  devices[di].path)
       IN  /\ infoFilter' = r.filter
           /\ devRefs' = ComPtrAssign(devRefs, infoFilter, r.filter)
           /\ pc' = IF r.continue THEN "enum" ELSE "enumerated"
    /\ UNCHANGED <<platform, fcur, di, pi, mi, curPin, curFilter, moniker,
                   outPin, outFilter, outMedium, ret, pinRefs, filtRefs,
                   monRefs, heldAtAdvance>>

\* *out = info.filter.Detach() when a candidate was recorded
GetDeviceFilter_Return ==
    /\ op = "GetDeviceFilter" /\ pc = "enumerated"
    /\ IF infoFilter # 0
       THEN /\ outFilter' = infoFilter
            /\ infoFilter' = 0
            /\ Return(TRUE)
       ELSE /\ Return(FALSE)
            /\ UNCHANGED <<outFilter, infoFilter>>
    /\ UNCHANGED <<platform, fcur, di, pi, mi, curPin, curFilter, moniker,
                   outPin, outMedium, devRefs, pinRefs, filtRefs, monRefs,
                   heldAtAdvance>>

NextDevice ==
    \/ GetDeviceFilter_Call
    \/ EnumDevices_Next
    \/ GetDeviceCallback_Visit
    \/ GetDeviceFilter_Return

SpecDevice == InitDevice /\ [][NextDevice]_vars

(***************************************************************************)
(* The predicates and the medium extractor called on one pin               *)
(***************************************************************************)
Call_PinHasMajorType ==
    /\ op = "PinHasMajorType" /\ pc = "start"
    /\ Return(PinHasMajorType(req.pin, req.type))
    /\ UNCHANGED <<platform, fcur, di, pi, mi, infoFilter, curPin, curFilter,
                   moniker, outPin, outFilter, outMedium, devRefs, pinRefs,
                   filtRefs, monRefs, heldAtAdvance>>

Call_PinIsCategory ==
    /\ op = "PinIsCategory" /\ pc = "start"
    /\ Return(PinIsCategory(req.pin, req.category))
    /\ UNCHANGED <<platform, fcur, di, pi, mi, infoFilter, curPin, curFilter,
                   moniker, outPin, outFilter, outMedium, devRefs, pinRefs,
                   filtRefs, monRefs, heldAtAdvance>>

Call_GetPinMedium ==
    /\ op = "GetPinMedium" /\ pc = "start"
    /\ LET r == GetPinMedium(req.pin, outMedium)
       IN  outMedium' = r.medium /\ Return(r.ok)
    /\ UNCHANGED <<platform, fcur, di, pi, mi, infoFilter, curPin, curFilter,
                   moniker, outPin, outFilter, devRefs, pinRefs, filtRefs,
                   monRefs, heldAtAdvance>>

(***************************************************************************)
(* Pin walkers.  Each loop is two steps: pinsEnum->Next, then the body.    *)
(***************************************************************************)
Pins == filters[fcur].pins

\* if (!filter) return false; if (FAILED(filter->EnumPins(...))) return false
WalkerEnter(next) ==
    IF fcur = 0 THEN Return(FALSE)
    ELSE IF ~filters[fcur].enumPins THEN Return(FALSE)
    ELSE pc' = next /\ ret' = ret

\* pinsEnum->Next(1, &curPin, &num): S_OK with the next pin (one reference
\* added) or the end of the collection
PinsEnumNext(body, end) ==
    /\ heldAtAdvance' = heldAtAdvance \cup Held("pin", curPin)
    /\ IF pi < Len(Pins)
       THEN /\ pi' = pi + 1
            /\ curPin' = pi + 1
            /\ pinRefs' = AddRefPin(pinRefs, fcur, pi + 1)
            /\ pc' = body /\ ret' = ret
       ELSE /\ pc' = end /\ ret' = FALSE
            /\ pinRefs' = ReleasePin(pinRefs, fcur, curPin)
            /\ curPin' = 0
            /\ pi' = pi

GetFilterPin_Call ==
    /\ op = "GetFilterPin" /\ pc = "gfp_call"
    /\ WalkerEnter("gfp_next")
    /\ UNCHANGED <<platform, fcur, di, pi, mi, infoFilter, curPin, curFilter,
                   moniker, outPin, outFilter, outMedium, devRefs, pinRefs,
                   filtRefs, monRefs, heldAtAdvance>>

GetFilterPin_Next ==
    /\ op = "GetFilterPin" /\ pc = "gfp_next"
    /\ PinsEnumNext("gfp_body", "done")
    /\ UNCHANGED <<platform, fcur, di, mi, infoFilter, curFilter, moniker,
                   outPin, outFilter, outMedium, devRefs, filtRefs, monRefs>>

\* match: *pin = curPin; (*pin)->AddRef(); return (curPin is destroyed);
\* otherwise curPin.Release()
GetFilterPin_BodyNoAddRef ==
    /\ op = "GetFilterPin" /\ pc = "gfp_body"
    /\ IF PinMatches(curPin, req.type, req.category, req.dir)
       THEN /\ outPin' = curPin
            /\ pinRefs' = ReleasePin(pinRefs, fcur, curPin)
            /\ Return(TRUE)
       ELSE /\ pinRefs' = ReleasePin(pinRefs, fcur, curPin)
            /\ pc' = "gfp_next"
            /\ UNCHANGED <<outPin, ret>>
    /\ curPin' = 0
    /\ UNCHANGED <<platform, fcur, di, pi, mi, infoFilter, curFilter, moniker,
                   outFilter, outMedium, devRefs, filtRefs, monRefs,
                   heldAtAdvance>>

GetFilterPin_Body ==
    /\ op = "GetFilterPin" /\ pc = "gfp_body"
    /\ IF PinMatches(curPin, req.type, req.category, req.dir)
       THEN /\ outPin' = curPin
            /\ pinRefs' = ReleasePin(AddRefPin(pinRefs, fcur, curPin),
                                     fcur, curPin)
            /\ Return(TRUE)
       ELSE /\ pinRefs' = ReleasePin(pinRefs, fcur, curPin)
            /\ pc' = "gfp_next"
            /\ UNCHANGED <<outPin, ret>>
    /\ curPin' = 0
    /\ UNCHANGED <<platform, fcur, di, pi, mi, infoFilter, curFilter, moniker,
                   outFilter, outMedium, devRefs, filtRefs, monRefs,
                   heldAtAdvance>>

GetPinByName_Call ==
    /\ op = "GetPinByName" /\ pc = "gpn_call"
    /\ WalkerEnter("gpn_next")
    /\ UNCHANGED <<platform, fcur, di, pi, mi, infoFilter, curPin, curFilter,
                   moniker, outPin, outFilter, outMedium, devRefs, pinRefs,
                   filtRefs, monRefs, heldAtAdvance>>

GetPinByName_Next ==
    /\ op = "GetPinByName" /\ pc = "gpn_next"
    /\ PinsEnumNext("gpn_body", "done")
    /\ UNCHANGED <<platform, fcur, di, mi, infoFilter, curFilter, moniker,
                   outPin, outFilter, outMedium, devRefs, filtRefs, monRefs>>

\* match: *pin = curPin.Detach(); otherwise curPin.Release()
GetPinByName_Body ==
    /\ op = "GetPinByName" /\ pc = "gpn_body"
    /\ IF PinIsDirection(curPin, req.dir) /\ PinNameIs(curPin, req.pinName)
       THEN /\ outPin' = curPin
            /\ Return(TRUE)
            /\ UNCHANGED pinRefs
       ELSE /\ pinRefs' = ReleasePin(pinRefs, fcur, curPin)
            /\ pc' = "gpn_next"
            /\ UNCHANGED <<outPin, ret>>
    /\ curPin' = 0
    /\ UNCHANGED <<platform, fcur, di, pi, mi, infoFilter, curFilter, moniker,
                   outFilter, outMedium, devRefs, filtRefs, monRefs,
                   heldAtAdvance>>

\* GetPinByMedium is public and is also called by
\* GetFilterByMediumFromMoniker, to which it then returns
GetPinByMediumReturn(r) ==
    /\ pc' = IF op = "GetPinByMedium" THEN "done" ELSE "fm_ret"
    /\ ret' = r

GetPinByMedium_Call ==
    /\ op \in {"GetPinByMedium", "GetFilterByMedium"} /\ pc = "gpm_call"
    /\ IF fcur = 0 THEN GetPinByMediumReturn(FALSE)
       ELSE IF ~filters[fcur].enumPins THEN GetPinByMediumReturn(FALSE)
       ELSE pc' = "gpm_next" /\ ret' = ret
    /\ pi' = 0
    /\ UNCHANGED <<platform, fcur, di, mi, infoFilter, curPin, curFilter,
                   moniker, outPin, outFilter, outMedium, devRefs, pinRefs,
                   filtRefs, monRefs, heldAtAdvance>>

GetPinByMedium_Next ==
    /\ op \in {"GetPinByMedium", "GetFilterByMedium"} /\ pc = "gpm_next"
    /\ PinsEnumNext("gpm_body",
                    IF op = "GetPinByMedium" THEN "done" ELSE "fm_ret")
    /\ UNCHANGED <<platform, fcur, di, mi, infoFilter, curFilter, moniker,
                   outPin, outFilter, outMedium, devRefs, filtRefs, monRefs>>

\* GetPinMedium(curPin, curMedium) && memcmp(&medium, &curMedium, ...) == 0,
\* curMedium being uninitialised before the call
PinHasMedium(pin, medium, garbage) ==
    LET r == GetPinMedium(pin, garbage)
    IN  r.ok /\ r.medium = medium

\* match: *pin = curPin.Detach(); otherwise curPin.Release()
GetPinByMedium_Body ==
    /\ op \in {"GetPinByMedium", "GetFilterByMedium"} /\ pc = "gpm_body"
    /\ \E curMedium \in StackGarbage :
          IF PinHasMedium(curPin, req.medium, curMedium)
          THEN /\ outPin' = curPin
               /\ GetPinByMediumReturn(TRUE)
               /\ UNCHANGED pinRefs
          ELSE /\ pinRefs' = ReleasePin(pinRefs, fcur, curPin)
               /\ pc' = "gpm_next"
               /\ UNCHANGED <<outPin, ret>>
    /\ curPin' = 0
    /\ UNCHANGED <<platform, fcur, di, pi, mi, infoFilter, curFilter, moniker,
                   outFilter, outMedium, devRefs, filtRefs, monRefs,
                   heldAtAdvance>>

NextPins ==
    \/ Call_PinHasMajorType
    \/ Call_PinIsCategory
    \/ Call_GetPinMedium
    \/ GetFilterPin_Call
    \/ GetFilterPin_Next
    \/ GetFilterPin_Body
    \/ GetPinByName_Call
    \/ GetPinByName_Next
    \/ GetPinByName_Body
    \/ GetPinByMedium_Call
    \/ GetPinByMedium_Next
    \/ GetPinByMedium_Body

SpecPins == (InitPredicate \/ InitWalker) /\ [][NextPins]_vars

(***************************************************************************)
(* GetFilterByMedium                                                       *)
(***************************************************************************)

\* CoCreateInstance and CreateClassEnumerator, then enumMoniker->Reset()
GetFilterByMedium_Call ==
    /\ op = "GetFilterByMedium" /\ pc = "start"
    /\ IF FAILED(sysEnum.coCreate) THEN Return(FALSE)
       ELSE IF FAILED(sysEnum.classEnum) THEN Return(FALSE)
       ELSE pc' = "fm_next" /\ ret' = ret
    /\ mi' = 0
    /\ UNCHANGED <<platform, fcur, di, pi, infoFilter, curPin, curFilter,
                   moniker, outPin, outFilter, outMedium, devRefs, pinRefs,
                   filtRefs, monRefs, heldAtAdvance>>

\* enumMoniker->Next(1, &moniker, &count)
GetFilterByMedium_Next ==
    /\ op = "GetFilterByMedium" /\ pc = "fm_next"
    /\ heldAtAdvance' = heldAtAdvance \cup Held("moniker", moniker)
                            \cup Held("filter", curFilter)
    /\ IF mi < Len(binds)
       THEN /\ mi' = mi + 1
            /\ moniker' = mi + 1
            /\ monRefs' = AddRef(monRefs, mi + 1)
            /\ pc' = "fm_bind" /\ ret' = ret
       ELSE /\ Return(FALSE)
            /\ monRefs' = Release(monRefs, moniker)
            /\ moniker' = 0
            /\ mi' = mi
    /\ UNCHANGED <<platform, fcur, di, pi, infoFilter, curPin, curFilter,
                   outPin, outFilter, outMedium, devRefs, pinRefs, filtRefs>>

\* GetFilterByMediumFromMoniker: moniker->BindToObject(...); on success
\* GetPinByMedium(curFilter, medium, &pin) is called, on failure a warning
\* is logged and false is returned
GetFilterByMediumFromMoniker_BindAbort ==
    /\ op = "GetFilterByMedium" /\ pc = "fm_bind"
    /\ IF SUCCEEDED(binds[moniker])
       THEN /\ curFilter' = moniker
            /\ fcur' = moniker
            /\ filtRefs' = AddRef(filtRefs, moniker)
            /\ pc' = "gpm_call" /\ ret' = ret
            /\ UNCHANGED <<monRefs>>
            /\ moniker' = moniker
       ELSE /\ Return(FALSE)
            /\ monRefs' = Release(monRefs, moniker)
            /\ moniker' = 0
            /\ UNCHANGED <<curFilter, fcur, filtRefs>>
    /\ UNCHANGED <<platform, di, pi, mi, infoFilter, curPin, outPin,
                   outFilter, outMedium, devRefs, pinRefs, heldAtAdvance>>

GetFilterByMediumFromMoniker_Bind ==
    /\ op = "GetFilterByMedium" /\ pc = "fm_bind"
    /\ IF SUCCEEDED(binds[moniker])
       THEN /\ curFilter' = moniker
            /\ fcur' = moniker
            /\ filtRefs' = AddRef(filtRefs, moniker)
            /\ pc' = "gpm_call" /\ ret' = ret
       ELSE /\ pc' = "fm_body" /\ ret' = FALSE
            /\ UNCHANGED <<curFilter, fcur, filtRefs>>
    /\ UNCHANGED <<platform, di, pi, mi, infoFilter, curPin, moniker, outPin,
                   outFilter, outMedium, devRefs, pinRefs, monRefs,
                   heldAtAdvance>>

\* GetPinByMedium returned: on success *filter = curFilter.Detach(); in both
\* cases the locals pin and curFilter are destroyed
GetFilterByMediumFromMoniker_Return ==
    /\ op = "GetFilterByMedium" /\ pc = "fm_ret"
    /\ IF ret
       THEN /\ outFilter' = curFilter
            /\ UNCHANGED filtRefs
       ELSE /\ filtRefs' = Release(filtRefs, curFilter)
            /\ UNCHANGED outFilter
    /\ pinRefs' = IF outPin = 0 THEN pinRefs
                  ELSE ReleasePin(pinRefs, fcur, outPin)
    /\ outPin' = 0
    /\ curFilter' = 0
    /\ fcur' = 0
    /\ pc' = "fm_body"
    /\ UNCHANGED <<platform, di, pi, mi, infoFilter, curPin, moniker,
                   outMedium, ret, devRefs, monRefs, heldAtAdvance>>

\* if (GetFilterByMediumFromMoniker(...)) return true; moniker.Release()
GetFilterByMedium_Body ==
    /\ op = "GetFilterByMedium" /\ pc = "fm_body"
    /\ IF ret THEN Return(TRUE) ELSE pc' = "fm_next" /\ ret' = ret
    /\ monRefs' = Release(monRefs, moniker)
    /\ moniker' = 0
    /\ UNCHANGED <<platform, fcur, di, pi, mi, infoFilter, curPin, curFilter,
                   outPin, outFilter, outMedium, devRefs, pinRefs, filtRefs,
                   heldAtAdvance>>

NextMedium ==
    \/ GetFilterByMedium_Call
    \/ GetFilterByMedium_Next
    \/ GetFilterByMediumFromMoniker_Bind
    \/ GetPinByMedium_Call
    \/ GetPinByMedium_Next
    \/ GetPinByMedium_Body
    \/ GetFilterByMediumFromMoniker_Return
    \/ GetFilterByMedium_Body

SpecMedium == InitMedium /\ [][NextMedium]_vars

(***************************************************************************)
(* All operations                                                          *)
(***************************************************************************)
Init == InitDevice \/ InitPredicate \/ InitWalker \/ InitMedium

Next ==
    \/ GetDeviceFilter_Call
    \/ EnumDevices_Next
    \/ GetDeviceCallback_Visit
    \/ GetDeviceFilter_Return
    \/ Call_PinHasMajorType
    \/ Call_PinIsCategory
    \/ Call_GetPinMedium
    \/ GetFilterPin_Call
    \/ GetFilterPin_Next
    \/ GetFilterPin_Body
    \/ GetPinByName_Call
    \/ GetPinByName_Next
    \/ GetPinByName_Body
    \/ GetPinByMedium_Call
    \/ GetPinByMedium_Next
    \/ GetPinByMedium_Body
    \/ GetFilterByMedium_Call
    \/ GetFilterByMedium_Next
    \/ GetFilterByMediumFromMoniker_Bind
    \/ GetFilterByMediumFromMoniker_Return
    \/ GetFilterByMedium_Body

Spec == Init /\ [][Next]_vars

(***************************************************************************)
(* Properties of GetDeviceFilter                                           *)
(***************************************************************************)
DeviceDone == op = "GetDeviceFilter" /\ pc = "done"

\* candidate i passes the name criterion / the name and path criteria
NameMatch(i) == req.name = NULL \/ devices[i].name = req.name
FullMatch(i) == NameMatch(i) /\ req.path # NULL /\ devices[i].path = req.path
NameMatches == {i \in 1..Len(devices) : NameMatch(i)}
FullMatches == {i \in 1..Len(devices) : FullMatch(i)}
Min(S) == CHOOSE x \in S : \A y \in S : x <= y
Max(S) == CHOOSE x \in S : \A y \in S : x >= y

\* C1: with name and path both set, when some candidate equals both, the
\* call returns the first such candidate in enumeration order, not an
\* earlier or later candidate that matches the name only.
C1_FirstFullMatch ==
    (DeviceDone /\ req.name # NULL /\ req.path # NULL /\ FullMatches # {})
        => (ret /\ outFilter = Min(FullMatches))

C1_Witness ==
    /\ DeviceDone /\ req.name # NULL /\ req.path # NULL
    /\ \E j, k, l \in NameMatches :
          /\ j < k /\ k < l
          /\ ~FullMatch(j) /\ FullMatch(k) /\ ~FullMatch(l)
          /\ outFilter = k

\* C2: with name set and the enumerator succeeding, the call fails exactly
\* when no visited candidate has the requested name; a returned filter has
\* the requested name; and with path set and no candidate equal to both,
\* the returned filter is the last candidate with the requested name.
C2_NameResolution ==
    (DeviceDone /\ req.name # NULL /\ devEnum)
        => /\ ~ret <=> (\A i \in 1..di : devices[i].name # req.name)
           /\ ret => (outFilter # 0 /\ devices[outFilter].name = req.name)
           /\ (req.path # NULL /\ FullMatches = {} /\ ret)
                 => outFilter = Max(NameMatches)

C2_Witness ==
    /\ DeviceDone /\ req.name # NULL /\ devEnum /\ req.path # NULL
    /\ FullMatches = {} /\ Cardinality(NameMatches) >= 2
    /\ Len(devices) > Max(NameMatches)
    /\ ret /\ outFilter = Max(NameMatches)

\* C9 (as claimed): with path unset the visitor stops at the first
\* candidate that passes the name criterion: no later candidate is visited
\* and that candidate is returned.
C9_StopsAtFirstNameMatch ==
    (DeviceDone /\ devEnum /\ req.path = NULL /\ NameMatches # {})
        => (di = Min(NameMatches) /\ ret /\ outFilter = Min(NameMatches))

\* C9 (amended): with path unset the visitor never signals "stop": every
\* candidate is visited and the returned filter is the last candidate that
\* passes the name criterion ("not found" when there is none).
C9_VisitsAllKeepsLast ==
    (DeviceDone /\ devEnum /\ req.path = NULL)
        => /\ di = Len(devices)
           /\ ret <=> NameMatches # {}
           /\ ret => outFilter = Max(NameMatches)

C9_Witness ==
    /\ DeviceDone /\ devEnum /\ req.path = NULL
    /\ Cardinality(NameMatches) >= 2
    /\ di > Min(NameMatches)
    /\ ret /\ outFilter = Max(NameMatches) /\ outFilter # Min(NameMatches)

(***************************************************************************)
(* Properties of the predicates and the medium extractor                   *)
(***************************************************************************)
Sentinels == {GUID_NULL, KSMEDIUMSETID_Standard}

\* the raw driver medium list of a pin record (empty when it has none)
RawMediums(q) ==
    IF q.ks.present /\ SUCCEEDED(q.ks.hr) THEN q.ks.items ELSE <<>>
RealMediums(q) ==
    {i \in 1..Len(RawMediums(q)) : RawMediums(q)[i].clsMedium \notin Sentinels}

\* the major types of the capability list of a pin record
CapabilityTypes(q) ==
    IF SUCCEEDED(q.config.qi) /\ SUCCEEDED(q.config.count)
    THEN {q.config.caps[i].majortype :
            i \in {j \in 1..Len(q.config.caps) : SUCCEEDED(q.config.caps[j].hr)}}
    ELSE {}

\* the pin a predicate was called on
Called(o) == op = o /\ pc = "done" /\ req.pin # 0
ArgPin == filters[1].pins[1]

\* C8: a pin whose capability list has an entry of major type T has major
\* type T whatever media types it offers; otherwise it has major type T
\* exactly when the first media type it offers exists and has major type T.
C8_HasMajorType ==
    Called("PinHasMajorType") =>
        IF req.type \in CapabilityTypes(ArgPin)
        THEN ret
        ELSE ret <=> /\ SUCCEEDED(ArgPin.media.hr)
                     /\ Len(ArgPin.media.types) >= 1
                     /\ ArgPin.media.types[1] = req.type

C8_Witness ==
    /\ Called("PinHasMajorType") /\ ret
    /\ req.type \in CapabilityTypes(ArgPin)
    /\ Len(ArgPin.config.caps) >= 2
    /\ ArgPin.config.caps[1].majortype # req.type
    /\ Len(ArgPin.media.types) >= 1 /\ ArgPin.media.types[1] # req.type

\* the category query of the pin record fails, and the code it fails with
LacksCategory(q) == ~q.propSet.present \/ FAILED(q.propSet.hr)
CategoryFailure(q) == IF ~q.propSet.present THEN E_NOINTERFACE ELSE q.propSet.hr

\* C7 (as claimed): a non-null pin whose category query fails, in whatever
\* way, is of every category.
C7_AnyFailureMatches ==
    (Called("PinIsCategory") /\ LacksCategory(ArgPin)) => ret

\* C7 (amended): a non-null pin whose category query fails is of every
\* category exactly when the failure code is E_NOINTERFACE (no property-set
\* interface, or a query that itself returns E_NOINTERFACE); with any other
\* failure code it is of no category.
C7_NoInterfaceMatches ==
    (Called("PinIsCategory") /\ LacksCategory(ArgPin))
        => (ret <=> CategoryFailure(ArgPin) = E_NOINTERFACE)

C7_Witness ==
    /\ Called("PinIsCategory") /\ ArgPin.propSet.present
    /\ ArgPin.propSet.hr = E_PROP_ID_UNSUPPORTED /\ ~ret

\* C6: GetPinMedium succeeds exactly when the raw list has an entry whose
\* class-id is no sentinel, and then yields the first such entry, never a
\* sentinel; a pin GetPinByMedium returns has such an entry, equal to the
\* target.
C6_FirstRealMedium ==
    /\ Called("GetPinMedium") =>
          /\ ret <=> RealMediums(ArgPin) # {}
          /\ ret => /\ outMedium = RawMediums(ArgPin)[Min(RealMediums(ArgPin))]
                    /\ outMedium.clsMedium \notin Sentinels
    /\ (op = "GetPinByMedium" /\ pc = "done" /\ ret) =>
          LET q == filters[1].pins[outPin]
          IN  /\ RealMediums(q) # {}
              /\ RawMediums(q)[Min(RealMediums(q))] = req.medium

C6_Witness ==
    /\ Called("GetPinMedium") /\ ret
    /\ Len(RawMediums(ArgPin)) >= 2
    /\ RawMediums(ArgPin)[1].clsMedium \in Sentinels
    /\ outMedium = RawMediums(ArgPin)[2]

(***************************************************************************)
(* Properties of the pin walkers                                           *)
(***************************************************************************)
WalkedPins == IF fcur = 0 THEN <<>> ELSE filters[fcur].pins

\* the pins of the walked filter on which the three predicates hold
TypeMatches ==
    {i \in 1..Len(WalkedPins) :
        /\ PinHasMajorType(i, req.type)
        /\ PinIsDirection(i, req.dir)
        /\ PinIsCategory(i, req.category)}

\* C5: GetFilterPin returns the first pin, in enumeration order, on which
\* the major-type, direction and category predicates all hold, and "not
\* found" when there is none; in particular "not found" for direction
\* Output when every pin is an Input pin.
C5_FirstMatchingPin ==
    (op = "GetFilterPin" /\ pc = "done") =>
        /\ ret <=> TypeMatches # {}
        /\ ret => outPin = Min(TypeMatches)
        /\ (/\ req.dir = "PINDIR_OUTPUT"
            /\ \A i \in 1..Len(WalkedPins) :
                  WalkedPins[i].dir.dir = "PINDIR_INPUT") => ~ret

C5_Witness ==
    /\ op = "GetFilterPin" /\ pc = "done" /\ ~ret
    /\ req.dir = "PINDIR_OUTPUT" /\ Len(WalkedPins) = 2
    /\ \A i \in 1..2 : WalkedPins[i].dir.dir = "PINDIR_INPUT"
    /\ \E i \in 1..2 : PinHasMajorType(i, req.type)
                          /\ PinIsCategory(i, req.category)

(***************************************************************************)
(* Properties of GetFilterByMedium                                         *)
(***************************************************************************)
MediumDone ==
    /\ op = "GetFilterByMedium" /\ pc = "done"
    /\ SUCCEEDED(sysEnum.coCreate) /\ SUCCEEDED(sysEnum.classEnum)

\* the monikers that instantiate and whose filter has a pin whose extracted
\* medium is the target
MediumMatches ==
    {i \in 1..Len(binds) :
        /\ SUCCEEDED(binds[i])
        /\ filters[i].enumPins
        /\ \E p \in 1..Len(filters[i].pins) :
              LET q == filters[i].pins[p]
              IN  /\ RealMediums(q) # {}
                  /\ RawMediums(q)[Min(RealMediums(q))] = req.medium}

\* C4: GetFilterByMedium returns the first moniker, in enumeration order,
\* that instantiates and whose filter has a pin whose extracted medium is
\* the target; a failed instantiation does not stop the traversal, and
\* "not found" is returned only after every moniker was tried.
C4_FirstInstantiableMatch ==
    MediumDone =>
        /\ ret <=> MediumMatches # {}
        /\ ret => outFilter = Min(MediumMatches)
        /\ ~ret => mi = Len(binds)

C4_Witness ==
    /\ MediumDone /\ ret
    /\ FAILED(binds[1])
    /\ outFilter = 2 /\ MediumMatches = {2}

(***************************************************************************)
(* Reference counting                                                      *)
(***************************************************************************)
Zero(refs) == \A i \in 1..Len(refs) : refs[i] = 0
OnlyOne(refs, h) == \A i \in 1..Len(refs) : refs[i] = IF i = h THEN 1 ELSE 0
PinsZero == \A f \in 1..Len(pinRefs) : Zero(pinRefs[f])
NoLocals == infoFilter = 0 /\ curPin = 0 /\ curFilter = 0 /\ moniker = 0

\* C3: when a resolver has returned it holds no reference to any candidate;
\* on success the returned handle is not NULL and carries exactly one
\* reference added by the call, and no other candidate carries any, so that
\* releasing the returned handle restores every count.
C3_OneOwnedReference ==
    (pc = "done") =>
        /\ NoLocals
        /\ Zero(monRefs)
        /\ op = "GetDeviceFilter" =>
              /\ ret => outFilter # 0
              /\ OnlyOne(devRefs, IF ret THEN outFilter ELSE 0)
        /\ op \in {"GetFilterPin", "GetPinByName", "GetPinByMedium"} =>
              /\ ret => outPin # 0
              /\ \A f \in 1..Len(pinRefs) :
                    OnlyOne(pinRefs[f], IF ret THEN outPin ELSE 0)
        /\ op = "GetFilterByMedium" =>
              /\ ret => outFilter # 0
              /\ OnlyOne(filtRefs, IF ret THEN outFilter ELSE 0)
              /\ PinsZero

C3_Witness ==
    /\ pc = "done" /\ op = "GetFilterPin" /\ ret
    /\ outPin = 2 /\ pinRefs[1] = <<0, 1>>

\* the handle returned to the caller
Result ==
    IF ~ret THEN {}
    ELSE IF op \in {"GetDeviceFilter"} THEN Held("device", outFilter)
    ELSE IF op = "GetFilterByMedium" THEN Held("filter", outFilter)
    ELSE Held("pin", outPin)

\* C10 (as claimed): in every resolver loop, whatever candidate handle the
\* loop holds when it advances to the next candidate is the final result.
C10_NothingHeldAcrossCandidates ==
    (pc = "done") => heldAtAdvance \subseteq Result

\* the candidates the visitor has seen
Visited == 1..(IF pc = "callback" THEN di - 1 ELSE di)
VisitedNameMatches == {i \in Visited : NameMatch(i)}

\* C10 (amended): the pin loops and the moniker loop hold no reference to
\* any candidate when they advance to the next one.  The device visitor
\* keeps one reference, to the most recent candidate that passed the name
\* criterion, while later candidates are visited; the reference to the
\* candidate it replaces is released at once, so it never holds more than
\* one.
C10_ReleasedBeforeAdvance ==
    /\ op # "GetDeviceFilter" => heldAtAdvance = {}
    /\ pc \in {"gfp_next", "gpn_next", "gpm_next"} =>
          curPin = 0 /\ PinsZero
    /\ pc = "fm_next" =>
          moniker = 0 /\ curFilter = 0 /\ Zero(monRefs) /\ Zero(filtRefs)
              /\ PinsZero
    /\ (op = "GetDeviceFilter" /\ pc \in {"enum", "callback", "enumerated"}) =>
          /\ infoFilter = IF VisitedNameMatches = {} THEN 0
                          ELSE Max(VisitedNameMatches)
          /\ OnlyOne(devRefs, infoFilter)

C10_Witness ==
    /\ op = "GetDeviceFilter" /\ pc = "callback"
    /\ infoFilter # 0 /\ di = infoFilter + 2
    /\ devRefs[infoFilter] = 1

=============================================================================
